---------------------------- MODULE Spec2Model ----------------------------
(***************************************************************************)
(* Model of the limeon player physics: PlayerPhys::new, PlayerPhys::update *)
(* (with its get_limit probe closure), the tile effect registry built by   *)
(* WorldMap::from_path, and the keyboard handlers of the event loop.       *)
(*                                                                         *)
(* Number model.  Every f64 of the program is a fixed-point integer:       *)
(*   lengths, velocities, accelerations, forces, limits : value * FP       *)
(*   Collision coefficients (bounce, friction)          : value * CoefDen  *)
(*   mass                                               : value * MassDen  *)
(*   dt                                                 : value * TimeDen  *)
(* Every f64 product or quotient is rounded to the nearest representable   *)
(* value, symmetrically in the sign (RoundDiv), as IEEE rounding is.       *)
(* A lattice coordinate (the result of floor()) is a plain integer.        *)
(* Signed zero is not represented: is_sign_negative(x) is x < 0.  In the   *)
(* friction step both zeros lead to the same numeric result (0).           *)
(* A division by a zero mass gives a non-finite f64; the model records it  *)
(* in `status` and stops following that body.                              *)
(***************************************************************************)
EXTENDS Integers, Sequences, FiniteSets, TLC

(* ------------------------------------------------------------------ *)
(* Representation units                                                *)
(* ------------------------------------------------------------------ *)
FP == 100000
CoefDen == 100
MassDen == 1000
TimeDen == 1000

(* Bounds of the explored runs *)
MaxTicks == 60
MaxInputs == 2
InputTicks == 0

(* the updates explored in a run that had an input event *)
InputRunTicks == 12

Abs(a) == IF a < 0 THEN -a ELSE a

Sign(a) == IF a < 0 THEN -1 ELSE IF a > 0 THEN 1 ELSE 0

(* n / d rounded to nearest, ties away from zero; d > 0 *)
RoundDiv(n, d) ==
    IF n >= 0 THEN (2 * n + d) \div (2 * d)
              ELSE -((2 * (-n) + d) \div (2 * d))

Vec(a, b) == [x |-> a, y |-> b]

VZero == Vec(0, 0)

VAdd(a, b) == Vec(a.x + b.x, a.y + b.y)

VSub(a, b) == Vec(a.x - b.x, a.y - b.y)

(* F64x2 * dt, dt in 1/TimeDen seconds *)
MulDt(a, dt) == RoundDiv(a * dt, TimeDen)

VMulDt(v, dt) == Vec(MulDt(v.x, dt), MulDt(v.y, dt))

(* f64 * Collision coefficient *)
MulCoef(a, c) == RoundDiv(a * c, CoefDen)

(* forces / mass; mass # 0 *)
DivMass(f, m) ==
    IF m > 0 THEN RoundDiv(f * MassDen, m)
             ELSE -RoundDiv(f * MassDen, -m)

VDivMass(v, m) == Vec(DivMass(v.x, m), DivMass(v.y, m))

(* `x as u32` for an integral f64 within the modelled range: saturates at 0 *)
AsU32(a) == IF a < 0 THEN 0 ELSE a

(* fn min / fn max of player/phys.rs *)
min(a, b) == IF a > b THEN b ELSE a

(* faulty variant: max that keeps its first argument *)
maxFirst(a, b) == a

max(a, b) == IF a > b THEN a ELSE b

(* ------------------------------------------------------------------ *)
(* constants.rs                                                         *)
(* ------------------------------------------------------------------ *)
GRAVITY == Vec(0, -980665)

BOUNCE_COEFF == 10

FLOOR_FRICTION_COEFF == Vec(20, 0)


(* ------------------------------------------------------------------ *)
(* world.rs: tile effects, the registry, the raster                     *)
(* ------------------------------------------------------------------ *)
(* Rgba<u8> pixel colours, named *)
Void == "rgba(0,0,0,0)"

Sand == "rgba(230,180,50,255)"

Launch == "rgba(50,222,250,255)"

WindTile == "rgba(255,75,125,255)"

White == "rgba(255,255,255,255)"

Green == "rgba(0,255,20,255)"

(* a colour WorldMap::from_path registers nothing for *)
Unregistered == "rgba(9,9,9,255)"

(* enum TileEffect *)
Collision(bounce, friction) ==
    [kind |-> "Collision", bounce |-> bounce, friction |-> friction]

HorizontalSpeedBoost(m) == [kind |-> "HorizontalSpeedBoost", mult |-> m]

LaunchEnable(s) == [kind |-> "LaunchEnable", strength |-> s]

Wind(f) == [kind |-> "Wind", force |-> f]

(* effect_map as WorldMap::from_path fills it *)
ReferenceRegistry ==
    [c \in {Sand, Launch, Void, WindTile, White, Green} |->
        CASE c = Sand ->
               [effects |-> << Collision(0, Vec(15, 0)), HorizontalSpeedBoost(200) >>,
                conditions |-> {"StandingOn"}]
          [] c = Launch ->
               [effects |-> << LaunchEnable(100) >>, conditions |-> {"InsideOf"}]
          [] c = Void ->
               [effects |-> << >>, conditions |-> {}]
          [] c = WindTile ->
               [effects |-> << Wind(Vec(3 * FP, 7 * FP)) >>, conditions |-> {"InsideOf"}]
          [] c = White ->
               [effects |-> << Collision(15, Vec(50, 0)) >>, conditions |-> {}]
          [] c = Green ->
               [effects |-> << Collision(90, Vec(80, 0)) >>, conditions |-> {}]]

(* a registry with the one material of constants.rs on the White tile *)
DropRegistry ==
    [c \in {Void, White} |->
        IF c = Void
        THEN [effects |-> << >>, conditions |-> {}]
        ELSE [effects |-> << Collision(BOUNCE_COEFF, FLOOR_FRICTION_COEFF) >>,
              conditions |-> {}]]

(* colours of a registry that holds TileEffect values the reference one  *)
(* does not: a Collision with friction 0, a tile with two Collisions     *)
Ice == "rgba(120,200,255,255)"

Layered == "rgba(90,60,30,255)"

IceRegistry ==
    [c \in {Void, White, Ice, Layered} |->
        CASE c = Void -> [effects |-> << >>, conditions |-> {}]
          [] c = White ->
               [effects |-> << Collision(15, Vec(50, 0)) >>, conditions |-> {}]
          [] c = Ice ->
               [effects |-> << Collision(50, Vec(0, 0)) >>, conditions |-> {}]
          [] c = Layered ->
               [effects |-> << Collision(90, Vec(80, 0)), Collision(30, Vec(10, 0)) >>,
                conditions |-> {}]]

(* HashMap::get *)
EffectMapGet(effect_map, pixel) ==
    IF pixel \in DOMAIN effect_map
    THEN [some |-> TRUE, eff |-> effect_map[pixel]]
    ELSE [some |-> FALSE]

(* how far outside the raster the start cells of the probe studies lie *)
StartMargin == 2

(* raster dimensions of the modelled worlds *)
RasterW == 10

RasterH == 10

(* ImageBuffer: pixels[<<x, y>>], x in 0..width-1, y in 0..height-1, row 0 on top *)
Raster(pixels) ==
    [width |-> RasterW, height |-> RasterH, pixels |-> pixels]

(* the cells (x, y) of a raster, y counted from the top row *)
Cells == (0 .. RasterW - 1) \X (0 .. RasterH - 1)

(* transparent but for a White bottom row *)
DropPixel(rx, ry) == IF ry = RasterH - 1 THEN White ELSE Void

(* a closed room: White walls and ceiling, a floor of three materials, and *)
(* passable tiles (Launch, Wind, an unregistered colour) inside            *)
RoomPixel(rx, ry) ==
    IF ry = 0 \/ rx = 0 \/ rx = RasterW - 1 THEN White
    ELSE IF ry = RasterH - 1
         THEN (IF rx <= 3 THEN Sand ELSE IF rx = 4 THEN White ELSE Green)
    ELSE IF rx = 2 /\ ry = 6 THEN Launch
    ELSE IF rx = 6 /\ ry = 4 THEN WindTile
    ELSE IF rx = 1 /\ ry = 8 THEN Unregistered
    ELSE IF rx = 7 /\ ry = 7 THEN Unregistered
    ELSE Void

(* a closed room whose floor is missing from column 3 to the right wall *)
PitPixel(rx, ry) ==
    IF ry = 0 \/ rx = 0 \/ rx = RasterW - 1 THEN White
    ELSE IF ry = RasterH - 1 THEN (IF rx <= 2 THEN White ELSE Void)
    ELSE Void

(* an open raster: a floor of Ice up to column 3 and of Layered tiles from *)
(* column 4 on, and one White tile standing on the floor in column 4      *)
IcePixel(rx, ry) ==
    IF ry = RasterH - 1 THEN (IF rx <= 3 THEN Ice ELSE Layered)
    ELSE IF ry = RasterH - 2 /\ rx = 4 THEN White
    ELSE Void

(* faulty variant: the pixel of the row above the one asked for *)
GetPixelCheckedRowAbove(map, x, y) ==
    IF x < map.width /\ y >= 1 /\ y - 1 < map.height
    THEN [some |-> TRUE, pixel |-> map.pixels[<< x, y - 1 >>]]
    ELSE [some |-> FALSE]

(* ImageBuffer::get_pixel_checked *)
GetPixelChecked(map, x, y) ==
    IF x < map.width /\ y < map.height
    THEN [some |-> TRUE, pixel |-> map.pixels[<< x, y >>]]
    ELSE [some |-> FALSE]

(* struct WorldMap, as from_path builds it around a decoded image *)
WorldMap(map, effect_map) ==
    [map |-> map, effect_map |-> effect_map, map_px_to_meter |-> FP \div 5]


(* ------------------------------------------------------------------ *)
(* player/phys.rs: the get_limit probe                                  *)
(* ------------------------------------------------------------------ *)
(* Option<(f64, F64x2)> *)
NoInfo == [some |-> FALSE]

SomeInfo(bounce, friction) == [some |-> TRUE, bounce |-> bounce, friction |-> friction]

IsCollision(effect) == effect.kind = "Collision"

(* the `for effect in &eff.0` loop: whether a Collision effect is in the list *)
HasCollision(effects) == \E i \in 1 .. Len(effects) : IsCollision(effects[i])

(* faulty variant: the loop stops at the first Collision of the list *)
FirstCollision(effects) ==
    LET idx == {i \in 1 .. Len(effects) : IsCollision(effects[i])}
        first == CHOOSE i \in idx : \A j \in idx : i <= j
    IN  SomeInfo(effects[first].bounce, effects[first].friction)

(* the material the loop leaves in collision_information: the last Collision *)
LastCollision(effects) ==
    LET idx == {i \in 1 .. Len(effects) : IsCollision(effects[i])}
        last == CHOOSE i \in idx : \A j \in idx : j <= i
    IN  SomeInfo(effects[last].bounce, effects[last].friction)

(* The loop of get_limit from the scan coordinate lim.  overflow_checks is  *)
(* the build's setting: `height - (.. as u32)` below zero panics with it    *)
(* and wraps to a row far outside the raster without it.  Result: the       *)
(* final lim, collision_information, why the loop ended, the sampled cell.  *)
RECURSIVE GetLimitLoop(_, _, _, _, _, _)
GetLimitLoop(w, overflow_checks, start, mode, lim, info) ==
    LET x == AsU32(IF mode \in {1, 2} THEN start.x ELSE lim)
        sub == AsU32(IF mode \in {1, 2} THEN lim ELSE start.y)
        height == w.map.height
        overflow == sub > height
        got == IF overflow THEN [some |-> FALSE]
                           ELSE GetPixelChecked(w.map, x, height - sub)
        found == IF got.some THEN EffectMapGet(w.effect_map, got.pixel)
                             ELSE [some |-> FALSE]
        effects == IF found.some THEN found.eff.effects ELSE << >>
        collision == HasCollision(effects)
        info2 == IF collision /\ mode = 1 THEN LastCollision(effects) ELSE info
        cell == IF got.some THEN << x, height - sub >> ELSE << >>
    IN  IF overflow /\ overflow_checks
        THEN [lim |-> lim, info |-> info, stop |-> "panic", cell |-> << >>]
        ELSE IF ~got.some
        THEN [lim |-> lim, info |-> info, stop |-> "outside", cell |-> << >>]
        ELSE IF collision
        THEN [lim |-> lim, info |-> info2, stop |-> "collision", cell |-> cell]
        ELSE IF mode \in {1, 3}
        THEN (IF AsU32(lim) >= 1
              THEN GetLimitLoop(w, overflow_checks, start, mode, AsU32(lim) - 1, info2)
              ELSE [lim |-> lim, info |-> info2, stop |-> "zero", cell |-> cell])
        ELSE GetLimitLoop(w, overflow_checks, start, mode, AsU32(lim) + 1, info2)

(* faulty variant: the scan starts one step beyond its start coordinate *)
GetLimitSkipsStart(w, overflow_checks, start, mode, info) ==
    LET c == IF mode \in {1, 2} THEN start.y ELSE start.x
        r == GetLimitLoop(w, overflow_checks, start, mode,
                          IF mode \in {1, 3} THEN c - 1 ELSE c + 1, info)
    IN  [lim_meters |-> r.lim * w.map_px_to_meter, lim |-> r.lim, info |-> r.info,
         stop |-> r.stop, cell |-> r.cell, start |-> start, mode |-> mode]

(* faulty variant: a probe of any mode records the material it stops on *)
GetLimitRecordsAnyMode(w, overflow_checks, start, mode, info) ==
    LET r == GetLimitLoop(w, overflow_checks, start, mode,
                          IF mode \in {1, 2} THEN start.y ELSE start.x, info)
        info2 == IF r.stop = "collision"
                 THEN LastCollision(EffectMapGet(w.effect_map,
                                                 w.map.pixels[r.cell]).eff.effects)
                 ELSE r.info
    IN  [lim_meters |-> r.lim * w.map_px_to_meter, lim |-> r.lim, info |-> info2,
         stop |-> r.stop, cell |-> r.cell, start |-> start, mode |-> mode]

(* get_limit, line 191: lim * map_px_to_meter *)
LimMeters(w, lim) == lim * w.map_px_to_meter

(* get_limit(start, mode): 1 = y min, 2 = y max, 3 = x min, 4 = x max *)
GetLimit(w, overflow_checks, start, mode, info) ==
    LET r == GetLimitLoop(w, overflow_checks, start, mode,
                          IF mode \in {1, 2} THEN start.y ELSE start.x, info)
    IN  [lim_meters |-> LimMeters(w, r.lim), lim |-> r.lim, info |-> r.info,
         stop |-> r.stop, cell |-> r.cell, start |-> start, mode |-> mode]

(* faulty variant: the location floored before it is scaled *)
PixelSpaceFloorsFirst(w, loc) ==
    LET meter_to_map_px == FP \div w.map_px_to_meter
    IN  Vec((loc.x \div FP) * meter_to_map_px, (loc.y \div FP) * meter_to_map_px)

(* pixel_space_self_coords: floor(loc * meter_to_map_px), meter_to_map_px = 1 / map_px_to_meter *)
PixelSpaceSelfCoords(w, loc) ==
    LET meter_to_map_px == FP \div w.map_px_to_meter
    IN  Vec((loc.x * meter_to_map_px) \div FP, (loc.y * meter_to_map_px) \div FP)


(* ------------------------------------------------------------------ *)
(* player/phys.rs: PlayerPhys                                           *)
(* ------------------------------------------------------------------ *)
LimitNames ==
    << "y0_min", "y1_min", "y2_min", "y0_max", "y1_max", "y2_max",
       "x0_min", "x1_min", "x2_min", "x3_min", "x0_max", "x1_max", "x2_max", "x3_max" >>

(* PlayerPhys::new *)
PlayerPhysNew(loc, mass, size) ==
    [loc |-> loc, force |-> VZero, accel |-> VZero, vel |-> VZero,
     movement_forces |-> VZero, mass |-> mass, last_direction |-> "Right",
     size |-> size,
     x0_min |-> 0, x1_min |-> 0, x2_min |-> 0, x3_min |-> 0,
     x0_max |-> 0, x1_max |-> 0, x2_max |-> 0, x3_max |-> 0,
     y0_min |-> 0, y1_min |-> 0, y2_min |-> 0,
     y0_max |-> 0, y1_max |-> 0, y2_max |-> 0]

(* The 14 get_limit calls of update in program order: the field assigned,  *)
(* the offset added to current_pixelspace_loc, the mode, and the multiple  *)
(* of map_px_to_meter added to the result.                                 *)
Probes ==
    << [field |-> "y0_min", off |-> Vec(0, 0), mode |-> 1, adj |-> 0],
       [field |-> "y1_min", off |-> Vec(1, 0), mode |-> 1, adj |-> 0],
       [field |-> "y2_min", off |-> Vec(2, 0), mode |-> 1, adj |-> 0],
       [field |-> "y0_max", off |-> Vec(0, 4), mode |-> 2, adj |-> -1],
       [field |-> "y1_max", off |-> Vec(1, 4), mode |-> 2, adj |-> -1],
       [field |-> "y2_max", off |-> Vec(2, 4), mode |-> 2, adj |-> -1],
       [field |-> "x0_min", off |-> Vec(0, 1), mode |-> 3, adj |-> 1],
       [field |-> "x1_min", off |-> Vec(0, 2), mode |-> 3, adj |-> 1],
       [field |-> "x2_min", off |-> Vec(0, 3), mode |-> 3, adj |-> 1],
       [field |-> "x3_min", off |-> Vec(0, 4), mode |-> 3, adj |-> 1],
       [field |-> "x0_max", off |-> Vec(2, 1), mode |-> 4, adj |-> 0],
       [field |-> "x1_max", off |-> Vec(2, 2), mode |-> 4, adj |-> 0],
       [field |-> "x2_max", off |-> Vec(2, 3), mode |-> 4, adj |-> 0],
       [field |-> "x3_max", off |-> Vec(2, 4), mode |-> 4, adj |-> 0] >>

(* Runs the probes from the i-th on, threading collision_information; a   *)
(* panic inside a probe ends the run with the probes done so far.          *)
RECURSIVE RunProbes(_, _, _, _, _, _)
RunProbes(w, overflow_checks, cur, i, info, done) ==
    IF i > Len(Probes)
    THEN [panic |-> FALSE, info |-> info, probes |-> done]
    ELSE LET r == GetLimit(w, overflow_checks, VAdd(cur, Probes[i].off),
                           Probes[i].mode, info)
         IN  IF r.stop = "panic"
             THEN [panic |-> TRUE, info |-> info, probes |-> done]
             ELSE RunProbes(w, overflow_checks, cur, i + 1, r.info, Append(done, r))

(* the value update stores for the i-th probe *)
StoredLimit(w, r, i) == r.lim_meters + Probes[i].adj * w.map_px_to_meter

(* p with the limits of the probes that completed stored in their fields *)
StoreLimits(w, p, probes) ==
    [f \in DOMAIN p |->
        IF \E i \in 1 .. Len(probes) : Probes[i].field = f
        THEN LET i == CHOOSE i \in 1 .. Len(probes) : Probes[i].field = f
             IN  StoredLimit(w, probes[i], i)
        ELSE p[f]]

(* faulty variant: the friction step without its overshoot and sign check *)
FrictionStepUnguarded(vx, friction_coeff, dt) ==
    LET f0 == MulDt(MulCoef(GRAVITY.y, friction_coeff.x), dt)
    IN  vx - (IF ~(vx < 0) THEN -f0 ELSE f0)

(* faulty variant: a reduction that would overshoot leaves velocity.x as   *)
(* it is instead of stopping the body                                      *)
FrictionStepKeepsOnOvershoot(vx, friction_coeff, dt) ==
    LET f0 == MulDt(MulCoef(GRAVITY.y, friction_coeff.x), dt)
        friction == IF ~(vx < 0) THEN -f0 ELSE f0
    IN  IF Abs(vx - friction) < Abs(vx) /\ ((vx - friction < 0) = (vx < 0))
        THEN vx - friction
        ELSE vx

(* the friction step: vel.x after it, for the velocity vx before it *)
FrictionStep(vx, friction_coeff, dt) ==
    LET f0 == MulDt(MulCoef(GRAVITY.y, friction_coeff.x), dt)
        friction == IF ~(vx < 0) THEN -f0 ELSE f0
    IN  IF Abs(vx - friction) < Abs(vx) /\ ((vx - friction < 0) = (vx < 0))
        THEN vx - friction
        ELSE 0

(* one side of the clamp: s = [vel, loc]; reflects and clamps when violated *)
ClampXMin(s, x_min, bounce) ==
    IF s.loc.x < x_min
    THEN [vel |-> Vec(MulCoef(-s.vel.x, bounce), s.vel.y), loc |-> Vec(x_min, s.loc.y)]
    ELSE s

(* faulty variant: the wall clamp takes the bounce factor of constants.rs *)
ClampXMaxWallBounce(s, x_max, size, bounce) ==
    IF s.loc.x + size.x > x_max
    THEN [vel |-> Vec(MulCoef(-s.vel.x, BOUNCE_COEFF), s.vel.y),
          loc |-> Vec(x_max - size.x, s.loc.y)]
    ELSE s

ClampXMax(s, x_max, size, bounce) ==
    IF s.loc.x + size.x > x_max
    THEN [vel |-> Vec(MulCoef(-s.vel.x, bounce), s.vel.y),
          loc |-> Vec(x_max - size.x, s.loc.y)]
    ELSE s

(* faulty variant: the floor clamp reflects the velocity and leaves the location *)
ClampYMinKeepsLoc(s, y_min, bounce) ==
    IF s.loc.y < y_min
    THEN [vel |-> Vec(s.vel.x, MulCoef(-s.vel.y, bounce)), loc |-> s.loc]
    ELSE s

(* faulty variant: the floor clamp adds the bounce factor instead of scaling by it *)
ClampYMinAddsBounce(s, y_min, bounce) ==
    IF s.loc.y < y_min
    THEN [vel |-> Vec(s.vel.x, -s.vel.y + bounce * (FP \div CoefDen)),
          loc |-> Vec(s.loc.x, y_min)]
    ELSE s

ClampYMin(s, y_min, bounce) ==
    IF s.loc.y < y_min
    THEN [vel |-> Vec(s.vel.x, MulCoef(-s.vel.y, bounce)), loc |-> Vec(s.loc.x, y_min)]
    ELSE s

ClampYMax(s, y_max, size, bounce) ==
    IF s.loc.y + size.y > y_max
    THEN [vel |-> Vec(s.vel.x, MulCoef(-s.vel.y, bounce)),
          loc |-> Vec(s.loc.x, y_max - size.y)]
    ELSE s

(* faulty variant: a zero horizontal movement force turns the body Left *)
FacingLeftAtZero(movement_forces, last_direction) ==
    IF movement_forces.x > 0 THEN "Right" ELSE "Left"

(* the facing rule at the end of update *)
Facing(movement_forces, last_direction) ==
    IF movement_forces.x > 0 THEN "Right"
    ELSE IF movement_forces.x < 0 THEN "Left"
    ELSE last_direction


(* the log of an update that did not run its body to the end *)
NoTick(kind) == [kind |-> kind]

(* faulty variant: the integration without the gravity term *)
IntegrateNoGravity(p, dt) ==
    LET accel == VDivMass(VAdd(p.force, p.movement_forces), p.mass)
        vel == VAdd(p.vel, VMulDt(accel, dt))
    IN  [accel |-> accel, vel |-> vel, new_loc |-> VAdd(p.loc, VMulDt(vel, dt))]

(* faulty variant: the location step taken with the velocity before the tick *)
IntegrateOldVelocity(p, dt) ==
    LET accel == VDivMass(VAdd(p.force, p.movement_forces), p.mass)
        vel == VAdd(VAdd(p.vel, VMulDt(GRAVITY, dt)), VMulDt(accel, dt))
    IN  [accel |-> accel, vel |-> vel, new_loc |-> VAdd(p.loc, VMulDt(p.vel, dt))]

(* update, lines 102-107: accel, vel after gravity and acceleration, new_loc *)
Integrate(p, dt) ==
    LET accel == VDivMass(VAdd(p.force, p.movement_forces), p.mass)
        vel == VAdd(VAdd(p.vel, VMulDt(GRAVITY, dt)), VMulDt(accel, dt))
    IN  [accel |-> accel, vel |-> vel, new_loc |-> VAdd(p.loc, VMulDt(vel, dt))]

(* update, lines 232-235: the aggregate limits of the stored probe limits *)
Aggregate(p) ==
    [x_min |-> max(max(p.x0_min, p.x1_min), max(p.x2_min, p.x3_min)),
     y_min |-> max(max(p.y0_min, p.y1_min), p.y2_min),
     x_max |-> min(min(p.x0_max, p.x1_max), min(p.x2_max, p.x3_max)),
     y_max |-> min(min(p.y0_max, p.y1_max), p.y2_max)]

(* faulty variant: friction applied whether or not the feet found material *)
AfterFrictionAlways(vel, info, dt) ==
    Vec(FrictionStep(vel.x, FLOOR_FRICTION_COEFF, dt), vel.y)

(* update, lines 217-229: the velocity after the friction step *)
AfterFriction(vel, info, dt) ==
    IF info.some THEN Vec(FrictionStep(vel.x, info.friction, dt), vel.y) ELSE vel

(* update, lines 236-256: the four clamps in program order *)
ClampAll(s, lim, size, bounce) ==
    ClampYMax(ClampYMin(ClampXMax(ClampXMin(s, lim.x_min, bounce),
                                  lim.x_max, size, bounce),
                        lim.y_min, bounce),
              lim.y_max, size, bounce)

(* faulty variant: after the limit clamps the body also bounces off the    *)
(* coordinate axes                                                        *)
ResolveBouncesAtZero(s, lim, size, info) ==
    LET s1 == IF info.some THEN ClampAll(s, lim, size, info.bounce) ELSE s
        s2 == IF s1.loc.x < 0
              THEN [vel |-> Vec(MulCoef(-s1.vel.x, BOUNCE_COEFF), s1.vel.y),
                    loc |-> Vec(0, s1.loc.y)]
              ELSE s1
    IN  IF s2.loc.y < 0
        THEN [vel |-> Vec(s2.vel.x, MulCoef(-s2.vel.y, BOUNCE_COEFF)),
              loc |-> Vec(s2.loc.x, 0)]
        ELSE s2

(* update, lines 236-259: resolution happens only with collision_information *)
Resolve(s, lim, size, info) ==
    IF info.some THEN ClampAll(s, lim, size, info.bounce) ELSE s

(* the condition of the `else if` of line 257 *)
Violated(loc, size, lim) ==
    \/ loc.x < lim.x_min
    \/ loc.x + size.x > lim.x_max
    \/ loc.y < lim.y_min
    \/ loc.y + size.y > lim.y_max

(* which of the four `if`s of lines 238-256 were taken *)
Hits(s, lim, size, info) ==
    IF ~info.some
    THEN [x_min |-> FALSE, x_max |-> FALSE, y_min |-> FALSE, y_max |-> FALSE]
    ELSE LET s1 == ClampXMin(s, lim.x_min, info.bounce)
             s2 == ClampXMax(s1, lim.x_max, size, info.bounce)
         IN  [x_min |-> s.loc.x < lim.x_min,
              x_max |-> s1.loc.x + size.x > lim.x_max,
              y_min |-> s2.loc.y < lim.y_min,
              y_max |-> ClampYMin(s2, lim.y_min, info.bounce).loc.y + size.y > lim.y_max]

(* update from line 215 on, for the integration it and the probe run *)
Commit(p, dt, it, run, p1) ==
    LET info == run.info
        lim == Aggregate(p1)
        s0 == [vel |-> AfterFriction(it.vel, info, dt), loc |-> it.new_loc]
        sEnd == Resolve(s0, lim, p.size, info)
    IN  [outcome |-> "ok",
         phys |-> [p1 EXCEPT !.loc = sEnd.loc, !.vel = sEnd.vel,
                             !.last_direction =
                                 Facing(p.movement_forces, p.last_direction)],
         log |-> [kind |-> "ok", dt |-> dt, old |-> p,
                  vel_integrated |-> it.vel, new_loc |-> it.new_loc,
                  probes |-> run.probes,
                  collision_information |-> info,
                  vx_after_friction |-> s0.vel.x,
                  lim |-> lim,
                  hit |-> Hits(s0, lim, p.size, info),
                  error_logged |-> ~info.some /\ Violated(it.new_loc, p.size, lim)]]

(* faulty variant: the update lets the movement force decay to zero *)
ProbeDropsForces(p, dt, w, overflow_checks, it) ==
    LET run == RunProbes(w, overflow_checks, PixelSpaceSelfCoords(w, p.loc),
                         1, NoInfo, << >>)
        p1 == StoreLimits(w, [p EXCEPT !.accel = it.accel, !.vel = it.vel,
                                       !.movement_forces = VZero], run.probes)
    IN  IF run.panic
        THEN [outcome |-> "panic", phys |-> p1, log |-> NoTick("panic")]
        ELSE Commit(p, dt, it, run, p1)

(* faulty variant: the probes start from the cell of the integrated location *)
ProbeFromNewLoc(p, dt, w, overflow_checks, it) ==
    LET run == RunProbes(w, overflow_checks, PixelSpaceSelfCoords(w, it.new_loc),
                         1, NoInfo, << >>)
        p1 == StoreLimits(w, [p EXCEPT !.accel = it.accel, !.vel = it.vel], run.probes)
    IN  IF run.panic
        THEN [outcome |-> "panic", phys |-> p1, log |-> NoTick("panic")]
        ELSE Commit(p, dt, it, run, p1)

(* update after the integration: the probes, then the rest *)
Probe(p, dt, w, overflow_checks, it) ==
    LET run == RunProbes(w, overflow_checks, PixelSpaceSelfCoords(w, p.loc),
                         1, NoInfo, << >>)
        p1 == StoreLimits(w, [p EXCEPT !.accel = it.accel, !.vel = it.vel], run.probes)
    IN  IF run.panic
        THEN [outcome |-> "panic", phys |-> p1, log |-> NoTick("panic")]
        ELSE Commit(p, dt, it, run, p1)

(* PlayerPhys::update(dt, map) on the body p of world w.  Result: how it   *)
(* ended ("ok", "panic", "nonfinite"), the body afterwards, and the values  *)
(* of its locals (the tick's log).                                          *)
UpdateStep(p, dt, w, overflow_checks) ==
    IF p.mass = 0
    THEN [outcome |-> "nonfinite", phys |-> p, log |-> NoTick("nonfinite")]
    ELSE Probe(p, dt, w, overflow_checks, Integrate(p, dt))

(* ------------------------------------------------------------------ *)
(* main.rs: the player's configuration and the event loop               *)
(* ------------------------------------------------------------------ *)
(* Player::new(.., jump_force = 5.0, move_force = 2.0) *)
JumpForce == 500000

MoveForce == 200000

(* the force a key adds to movement_forces while it is held *)
KeyForce(key) ==
    CASE key = "A" -> Vec(-MoveForce, 0)
      [] key = "D" -> Vec(MoveForce, 0)
      [] key = "W" -> Vec(0, MoveForce)
      [] key = "S" -> Vec(0, -MoveForce)

Keys == {"A", "D", "W", "S"}

(* the body sizes explored: the 3 x 4 cell sprite, the 1 x 1 cell body *)
SpriteSize == Vec(3 * (FP \div 5), 4 * (FP \div 5))

SmallSize == Vec(FP \div 5, FP \div 5)

DropWorld == WorldMap(Raster([c \in Cells |-> DropPixel(c[1], c[2])]), DropRegistry)

RoomWorld == WorldMap(Raster([c \in Cells |-> RoomPixel(c[1], c[2])]), ReferenceRegistry)

PitWorld == WorldMap(Raster([c \in Cells |-> PitPixel(c[1], c[2])]), ReferenceRegistry)

IceWorld == WorldMap(Raster([c \in Cells |-> IcePixel(c[1], c[2])]), IceRegistry)

(* a position given in lattice cells *)
AtCell(cx, cy) == Vec(cx * (FP \div 5), cy * (FP \div 5))

(* One explored start: Player::new(loc, mass, ..) with a sprite of the     *)
(* given size in a world, EventSettings.ups (update gets dt = 1 / ups),    *)
(* and the build (whether integer overflow panics).                        *)
Start(w, loc, mass, size, u, oc) ==
    [world |-> w, loc |-> loc, mass |-> mass, size |-> size,
     ups |-> u, overflow_checks |-> oc]

Scenarios ==
    { Start(DropWorld, AtCell(5, 5), MassDen, SmallSize, 100, FALSE),
      Start(DropWorld, AtCell(5, 5), MassDen, SmallSize, 100, TRUE),
      Start(RoomWorld, AtCell(5, 5), 113, SpriteSize, 100, FALSE),
      Start(RoomWorld, AtCell(1, 1), 113, SpriteSize, 25, FALSE),
      Start(RoomWorld, AtCell(2, 1), 113, SpriteSize, 25, TRUE),
      Start(RoomWorld, AtCell(5, 1), MassDen, SpriteSize, 100, FALSE),
      Start(RoomWorld, VAdd(AtCell(5, 1), Vec(0, FP \div 1000)), MassDen,
            SpriteSize, 100, FALSE),
      Start(PitWorld, AtCell(5, 3), 113, SpriteSize, 25, FALSE),
      Start(PitWorld, AtCell(1, 1), 113, SpriteSize, 100, TRUE),
      Start(RoomWorld, AtCell(5, 5), 0, SpriteSize, 100, FALSE),
      Start(RoomWorld, AtCell(5, 1), -113, SpriteSize, 100, FALSE),
      Start(RoomWorld, AtCell(5, 1), 113, Vec(0, -(FP \div 5)), 25, FALSE),
      Start(IceWorld, AtCell(4, 2), 113, SpriteSize, 25, FALSE),
      Start(DropWorld, AtCell(5, RasterH + 1), MassDen, SmallSize, 10, FALSE) }

VARIABLES
    phys,             \* the PlayerPhys
    world,            \* the WorldMap
    overflow_checks,  \* the build: whether integer overflow panics
    ups,              \* EventSettings.ups
    keys,             \* the keys held down
    status,           \* "running", "panicked", "nonfinite"
    ticks,            \* updates done
    inputs,           \* input events delivered
    tick,             \* the locals of the update that just ran, if one did
    airborne          \* history: the updates run in a row without material
                      \* at the feet and without an input event between
                      \* them, and velocity.x before the first of them

vars == << phys, world, overflow_checks, ups, keys, status, ticks, inputs, tick,
          airborne >>

Dt == TimeDen \div ups

NoStreak == [n |-> 0, vx |-> 0]

(* the history after an update with result r from the body p *)
Streak(r, p, a) ==
    IF r.outcome = "ok" /\ ~r.log.collision_information.some
    THEN [n |-> a.n + 1, vx |-> IF a.n = 0 THEN p.vel.x ELSE a.vx]
    ELSE NoStreak

Init ==
    \E sc \in Scenarios :
        /\ phys = PlayerPhysNew(sc.loc, sc.mass, sc.size)
        /\ world = sc.world
        /\ overflow_checks = sc.overflow_checks
        /\ ups = sc.ups
        /\ keys = {}
        /\ status = "running"
        /\ ticks = 0
        /\ inputs = 0
        /\ tick = NoTick("none")
        /\ airborne = NoStreak

(* e.update_args(): player.update_phys(args.dt, ..) *)
Update ==
    /\ status = "running"
    /\ ticks < (IF inputs = 0 THEN MaxTicks ELSE InputRunTicks)
    /\ \E r \in {UpdateStep(phys, Dt, world, overflow_checks)} :
           /\ phys' = r.phys
           /\ tick' = r.log
           /\ airborne' = Streak(r, phys, airborne)
           /\ status' = CASE r.outcome = "ok" -> "running"
                          [] r.outcome = "panic" -> "panicked"
                          [] r.outcome = "nonfinite" -> "nonfinite"
    /\ ticks' = ticks + 1
    /\ UNCHANGED << world, overflow_checks, ups, keys, inputs >>

InputAllowed == status = "running" /\ inputs < MaxInputs /\ ticks <= InputTicks

(* e.press_args(): Key::A / D / W / S *)
KeyPress(key) ==
    /\ InputAllowed
    /\ key \notin keys
    /\ phys' = [phys EXCEPT !.movement_forces = VAdd(@, KeyForce(key))]
    /\ keys' = keys \cup {key}
    /\ inputs' = inputs + 1
    /\ tick' = NoTick("none")
    /\ airborne' = NoStreak
    /\ UNCHANGED << world, overflow_checks, ups, status, ticks >>

(* e.release_args(): Key::A / D / W / S *)
KeyRelease(key) ==
    /\ InputAllowed
    /\ key \in keys
    /\ phys' = [phys EXCEPT !.movement_forces = VSub(@, KeyForce(key))]
    /\ keys' = keys \ {key}
    /\ inputs' = inputs + 1
    /\ tick' = NoTick("none")
    /\ airborne' = NoStreak
    /\ UNCHANGED << world, overflow_checks, ups, status, ticks >>

(* Key::Space: Player::jump *)
Jump ==
    /\ InputAllowed
    /\ phys' = [phys EXCEPT !.vel = Vec(@.x, @.y + JumpForce)]
    /\ inputs' = inputs + 1
    /\ tick' = NoTick("none")
    /\ airborne' = NoStreak
    /\ UNCHANGED << world, overflow_checks, ups, keys, status, ticks >>

Next ==
    \/ Update
    \/ \E key \in Keys : KeyPress(key)
    \/ \E key \in Keys : KeyRelease(key)
    \/ Jump

Spec == Init /\ [][Next]_vars

(* ------------------------------------------------------------------ *)
(* Properties of update                                                 *)
(* ------------------------------------------------------------------ *)
(* an update has just run to its end: tick holds its locals *)
Ticked == tick.kind = "ok"

(* the state update was about to resolve: velocity after friction, new_loc *)
BeforeResolve ==
    [vel |-> Vec(tick.vx_after_friction, tick.vel_integrated.y), loc |-> tick.new_loc]

(* The update started from rest on a floor: zero velocity, zero external *)
(* and movement force, location.y on the top of the Collision tile the    *)
(* feet probes found.                                                     *)
AtRestOnTile ==
    /\ Ticked
    /\ tick.old.vel = VZero
    /\ tick.old.force = VZero
    /\ tick.old.movement_forces = VZero
    /\ tick.collision_information.some
    /\ tick.lim.y_min = tick.old.loc.y

(* C1 as the spec states it: a body at rest on a Collision tile has, after *)
(* one update, velocity.y = 0 and its location.y unchanged.                 *)
C1RestStaysAtRest ==
    AtRestOnTile => phys.vel.y = 0 /\ phys.loc.y = tick.old.loc.y

(* C1, amended: a body at rest on a Collision tile, fitting under its      *)
(* ceiling limit, keeps its location.y over one update, and its velocity.y *)
(* becomes the tick's gravity increment reflected by the tile's bounce     *)
(* factor: bounce * 9.80665 * dt, which is 0 only for bounce 0.            *)
C1RestKeepsLocation ==
    AtRestOnTile /\ tick.lim.y_min + phys.size.y <= tick.lim.y_max
        => /\ phys.loc.y = tick.old.loc.y
           /\ phys.vel.y = MulCoef(-MulDt(GRAVITY.y, tick.dt),
                                   tick.collision_information.bounce)

(* a body at rest on a tile of positive bounce leaves the update moving up *)
C1Witness ==
    /\ AtRestOnTile
    /\ tick.lim.y_min + phys.size.y <= tick.lim.y_max
    /\ tick.collision_information.bounce > 0
    /\ phys.vel.y > 0
    /\ phys.loc.y = tick.old.loc.y

(* C2 as the spec states it: in a tick where a body moving down violates   *)
(* the floor limit, |velocity.y| after the update is at most |velocity.y|  *)
(* before the update.                                                      *)
C2NoGainOverTick ==
    Ticked /\ tick.hit.y_min /\ tick.old.vel.y < 0
        => Abs(phys.vel.y) <= Abs(tick.old.vel.y)

(* C2, amended: in a tick where the floor limit is violated, |velocity.y|  *)
(* after the update is at most |velocity.y| as integrated in that tick     *)
(* (after gravity and acceleration, right before the reflection).          *)
C2NoGainOverReflection ==
    Ticked /\ tick.hit.y_min
        => Abs(phys.vel.y) <= Abs(tick.vel_integrated.y)

(* a falling body hits the floor and keeps a nonzero, smaller speed *)
C2Witness ==
    /\ Ticked
    /\ tick.hit.y_min
    /\ tick.old.vel.y < 0
    /\ phys.vel.y > 0
    /\ phys.vel.y < Abs(tick.vel_integrated.y)

(* WorldMap::render (world.rs, line 121) draws raster pixel (x, raw_y) in  *)
(* lattice row height - raw_y - 1: the row of the raster that lattice row  *)
(* cy shows.                                                               *)
RasterRow(w, cy) == w.map.height - cy - 1

(* the lattice cell (cx, cy) shows a pixel that carries a Collision effect *)
CollisionCell(w, cx, cy) ==
    LET found == EffectMapGet(w.effect_map, w.map.pixels[<<cx, RasterRow(w, cy)>>])
    IN  found.some /\ HasCollision(found.eff.effects)

(* The open rectangle [loc, loc + size] meets the open square of a         *)
(* Collision cell of the world.                                            *)
Overlaps(w, loc, size) ==
    \E cx \in 0..(w.map.width - 1), cy \in 0..(w.map.height - 1) :
        /\ loc.x < (cx + 1) * w.map_px_to_meter
        /\ loc.x + size.x > cx * w.map_px_to_meter
        /\ loc.y < (cy + 1) * w.map_px_to_meter
        /\ loc.y + size.y > cy * w.map_px_to_meter
        /\ CollisionCell(w, cx, cy)

(* C3: in a run that starts with the body rectangle overlapping no         *)
(* Collision tile (every explored start does), the rectangle overlaps no   *)
(* Collision tile after any update.                                        *)
C3NoTunneling ==
    ~Overlaps(world, phys.loc, phys.size)

(* every explored start is clear of the Collision tiles *)
C3StartsClear ==
    ticks = 0 => ~Overlaps(world, phys.loc, phys.size)

(* x and y have the same sign, or y is exactly 0 *)
SameSignOrZero(x, y) == y = 0 \/ (x > 0 /\ y > 0) \/ (x < 0 /\ y < 0)

(* C4: the friction step never flips the sign of velocity.x: velocity.x    *)
(* right after the friction step has the sign it had right before it, or   *)
(* is exactly 0.                                                           *)
C4FrictionKeepsSign ==
    Ticked /\ tick.collision_information.some
        => SameSignOrZero(tick.vel_integrated.x, tick.vx_after_friction)

(* friction would overshoot a small velocity.x and the step clamps it to 0 *)
C4Witness ==
    /\ Ticked
    /\ tick.collision_information.some
    /\ tick.vel_integrated.x # 0
    /\ tick.vx_after_friction = 0
    /\ Abs(tick.vel_integrated.x)
           < Abs(MulDt(MulCoef(GRAVITY.y, tick.collision_information.friction.x),
                       tick.dt))

(* C5: update runs to completion without panicking, whatever the raster,   *)
(* the body and dt: no reachable state is the aborted one.                 *)
C5NeverPanics ==
    status # "panicked"

(* C6: in an update where an aggregate limit is violated and no feet       *)
(* material was recorded, the tick is resolved with a defined fallback     *)
(* bounce factor: the body ends the tick as the clamps leave it for some   *)
(* bounce factor in [0, 1].                                                *)
C6FallbackResolves ==
    Ticked /\ tick.error_logged
        => \E bounce \in 0 .. CoefDen :
               LET s == ClampAll(BeforeResolve, tick.lim, phys.size, bounce)
               IN  phys.vel = s.vel /\ phys.loc = s.loc

(* C7: construction rejects a nonpositive mass or size, so every reachable *)
(* state has mass > 0 and both size components > 0, and no update divides  *)
(* by a zero mass.                                                         *)
C7ValidBody ==
    /\ phys.mass > 0
    /\ phys.size.x > 0
    /\ phys.size.y > 0
    /\ status # "nonfinite"

(* The run of the drop scenario of the release build: the body of mass 1   *)
(* released at rest from y = 1.0 over the 10 x 10 raster with the bottom   *)
(* row of Collision(0.1, (0.2, 0)), dt = 0.01, no input event.             *)
DropRun ==
    /\ world = DropWorld
    /\ ~overflow_checks
    /\ inputs = 0
    /\ status = "running"

(* C8 as the spec states it, for floor contacts in two successive ticks:   *)
(* |velocity.y| at the later contact is below |velocity.y| at the earlier  *)
(* one unless both are 0.                                                  *)
C8SpeedDecays ==
    [][DropRun /\ Ticked /\ tick.hit.y_min /\ tick'.kind = "ok" /\ tick'.hit.y_min
           => \/ Abs(phys'.vel.y) < Abs(phys.vel.y)
              \/ phys'.vel.y = 0]_vars

(* C8, amended: in the drop scenario every floor contact ends the tick     *)
(* with location.y = y_min and with |velocity.y| equal to 0.1 times its    *)
(* value right before the reflection; from the second contact (update 48)  *)
(* on every update is a floor contact, so location.y = y_min at the end of *)
(* every tick, and velocity.y stays above 0 and, after that contact, at    *)
(* or below 0.1 * 9.80665 * dt (it neither decreases monotonically nor     *)
(* reaches 0).                                                             *)
C8Settles ==
    DropRun /\ Ticked
        => /\ tick.hit.y_min
                => /\ phys.loc.y = tick.lim.y_min
                   /\ Abs(phys.vel.y) = MulCoef(Abs(tick.vel_integrated.y), BOUNCE_COEFF)
           /\ ticks >= 48 => tick.hit.y_min /\ phys.vel.y > 0
           /\ ticks > 48
                => phys.vel.y <= MulCoef(-MulDt(GRAVITY.y, tick.dt), BOUNCE_COEFF)

(* settled on the floor, the body leaves a contact faster than it left the *)
(* contact of the tick before                                              *)
C8Witness ==
    /\ DropRun
    /\ Ticked
    /\ ticks > 48
    /\ tick.hit.y_min
    /\ phys.loc.y = tick.lim.y_min
    /\ tick.old.vel.y > 0
    /\ phys.vel.y > tick.old.vel.y

(* C9: after n updates in a row without material at the feet, with a       *)
(* constant movement force, zero external force and velocity.x = 0 before  *)
(* the first of them, velocity.x is n times the tick's increment           *)
(* (movement_forces.x / mass) * dt.                                        *)
C9AirborneLinear ==
    airborne.n > 0 /\ airborne.vx = 0 /\ phys.force = VZero
        => phys.vel.x = airborne.n * MulDt(DivMass(phys.movement_forces.x, phys.mass), Dt)

(* several airborne updates under a held key *)
C9Witness ==
    /\ airborne.n >= 5
    /\ airborne.vx = 0
    /\ phys.force = VZero
    /\ phys.movement_forces.x # 0
    /\ phys.vel.x = airborne.n * MulDt(DivMass(phys.movement_forces.x, phys.mass), Dt)
    /\ phys.vel.x # 0

(* the probe ended on a cell of the raster, the last one it sampled *)
StoppedOnCell(probe) == probe.cell # << >>

(* the pixel of a raster cell carries a Collision effect *)
CollisionPixel(w, cell) ==
    LET found == EffectMapGet(w.effect_map, w.map.pixels[cell])
    IN  found.some /\ HasCollision(found.eff.effects)

(* C10: a probe never stops on a cell whose colour has no registry entry   *)
(* or whose effects hold no Collision: every probe of an update that ends  *)
(* on a cell of the raster ends on a Collision cell.                       *)
C10StopsOnlyOnCollision ==
    Ticked
        => \A i \in 1 .. Len(tick.probes) :
               StoppedOnCell(tick.probes[i]) => CollisionPixel(world, tick.probes[i].cell)

(* the orders in which n probe results can be taken *)
Orders(n) == {f \in [1 .. n -> 1 .. n] : \A i, j \in 1 .. n : i # j => f[i] # f[j]}

(* the orders of the four x probes and of the three y probes of an edge *)
Orders4 == Orders(4)

Orders3 == Orders(3)

(* the aggregates of lines 232-235 with the probe results v taken in order f *)
MaxOf4(v, f) == max(max(v[f[1]], v[f[2]]), max(v[f[3]], v[f[4]]))

MinOf4(v, f) == min(min(v[f[1]], v[f[2]]), min(v[f[3]], v[f[4]]))

MaxOf3(v, f) == max(max(v[f[1]], v[f[2]]), v[f[3]])

MinOf3(v, f) == min(min(v[f[1]], v[f[2]]), v[f[3]])

(* the stored probe limits of each edge *)
XMins == << phys.x0_min, phys.x1_min, phys.x2_min, phys.x3_min >>

XMaxs == << phys.x0_max, phys.x1_max, phys.x2_max, phys.x3_max >>

YMins == << phys.y0_min, phys.y1_min, phys.y2_min >>

YMaxs == << phys.y0_max, phys.y1_max, phys.y2_max >>

(* m is the greatest / the least element of the sequence v *)
IsMaxOf(m, v) == (\E i \in DOMAIN v : v[i] = m) /\ (\A i \in DOMAIN v : v[i] <= m)

IsMinOf(m, v) == (\E i \in DOMAIN v : v[i] = m) /\ (\A i \in DOMAIN v : v[i] >= m)

(* C11: the aggregate limit of each edge is the max of its minimum-side    *)
(* probe results and the min of its maximum-side probe results, and it is  *)
(* the same in whatever order the probes of the edge are combined.         *)
C11AggregateOrderFree ==
    Ticked
        => /\ IsMaxOf(tick.lim.x_min, XMins) /\ IsMinOf(tick.lim.x_max, XMaxs)
           /\ IsMaxOf(tick.lim.y_min, YMins) /\ IsMinOf(tick.lim.y_max, YMaxs)
           /\ \A f \in Orders4 : /\ MaxOf4(XMins, f) = tick.lim.x_min
                                   /\ MinOf4(XMaxs, f) = tick.lim.x_max
           /\ \A f \in Orders3 : /\ MaxOf3(YMins, f) = tick.lim.y_min
                                   /\ MinOf3(YMaxs, f) = tick.lim.y_max

(* an update whose feet probes and whose left probes disagree, with the    *)
(* first probe of each of these edges not the most restrictive one         *)
C11Witness ==
    /\ Ticked
    /\ phys.y0_min < tick.lim.y_min
    /\ \E i \in 1 .. 4 : XMins[i] # tick.lim.x_min
    /\ \A f \in Orders3 : MaxOf3(YMins, f) = tick.lim.y_min

(* C12: an update leaves mass, size, the external force, the movement      *)
(* force and the world (raster, effect registry, pixel scale) unchanged.   *)
C12UpdateFrame ==
    [][ticks' # ticks
           => /\ phys'.mass = phys.mass
              /\ phys'.size = phys.size
              /\ phys'.force = phys.force
              /\ phys'.movement_forces = phys.movement_forces
              /\ world' = world]_vars

(* an update under a held key that changed location, velocity,             *)
(* acceleration, facing and stored limits, and kept the rest               *)
C12Witness ==
    /\ Ticked
    /\ phys.movement_forces # VZero
    /\ phys.loc # tick.old.loc
    /\ phys.vel # tick.old.vel
    /\ phys.accel # tick.old.accel
    /\ phys.last_direction # tick.old.last_direction
    /\ phys.y0_min # tick.old.y0_min
    /\ phys.mass = tick.old.mass
    /\ phys.size = tick.old.size
    /\ phys.force = tick.old.force
    /\ phys.movement_forces = tick.old.movement_forces

(* the world position of the lattice cell c, and the cell of a position *)
CellToWorld(w, c) == Vec(LimMeters(w, c.x), LimMeters(w, c.y))

RoundTrip(w, c) == PixelSpaceSelfCoords(w, CellToWorld(w, c))

ScanCell(w, start, mode, c) ==
    IF mode \in {1, 2}
    THEN << AsU32(start.x), w.map.height - AsU32(c) >>
    ELSE << AsU32(c), w.map.height - AsU32(start.y) >>

InRaster(w, cell) ==
    cell[1] >= 0 /\ cell[1] < w.map.width /\ cell[2] >= 0 /\ cell[2] < w.map.height

(* the scan coordinate a probe starts from *)
StartCoord(start, mode) == IF mode \in {1, 2} THEN start.y ELSE start.x

(* the scan coordinates at or beyond the start in the scan direction at    *)
(* which the probe would sample a Collision cell of the raster             *)
CollisionAhead(w, start, mode) ==
    {c \in (IF mode \in {1, 3}
            THEN 0 .. StartCoord(start, mode)
            ELSE StartCoord(start, mode) .. (w.map.width + w.map.height)) :
        /\ InRaster(w, ScanCell(w, start, mode, c))
        /\ CollisionPixel(w, ScanCell(w, start, mode, c))}

(* the element of the nonempty set S nearest to the start of the scan *)
Nearest(S, mode) ==
    IF mode \in {1, 3} THEN CHOOSE c \in S : \A d \in S : d <= c
                       ELSE CHOOSE c \in S : \A d \in S : d >= c

(* the lattice coordinates at or beyond the start cell, on the scan axis,  *)
(* of the Collision cells in line with the start cell                      *)
CollisionAheadInLattice(w, start, mode) ==
    {c \in (IF mode \in {1, 3}
            THEN 0 .. StartCoord(start, mode)
            ELSE StartCoord(start, mode) .. (w.map.width + w.map.height)) :
        LET cx == IF mode \in {1, 2} THEN start.x ELSE c
            cy == IF mode \in {1, 2} THEN c ELSE start.y
        IN  /\ cx >= 0 /\ cx < w.map.width /\ cy >= 0 /\ cy < w.map.height
            /\ CollisionCell(w, cx, cy)}

(* C14 as the spec states it, with cells counted in the lattice (row =     *)
(* raster_height - raster row - 1): a probe from a start cell inside the   *)
(* raster with a Collision cell at or beyond it in the scan direction      *)
(* returns the coordinate of the nearest such cell times pixel_scale.      *)
C14NearestInLattice ==
    Ticked
        => \A i \in 1 .. Len(tick.probes) :
               LET pr == tick.probes[i]
                   S == CollisionAheadInLattice(world, pr.start, pr.mode)
               IN  (/\ pr.start.x >= 0 /\ pr.start.x < world.map.width
                    /\ pr.start.y >= 0 /\ pr.start.y < world.map.height
                    /\ S # {})
                       => pr.lim_meters = LimMeters(world, Nearest(S, pr.mode))

(* C14, amended: a probe whose first sample is inside the raster and which *)
(* would sample a Collision cell at or beyond its start coordinate stops   *)
(* at the nearest such scan coordinate and returns that scan coordinate    *)
(* times pixel_scale (for a y scan the scan coordinate r reads raster row  *)
(* height - r, so this is the cell's lattice row plus one).                *)
C14NearestInScan ==
    Ticked
        => \A i \in 1 .. Len(tick.probes) :
               LET pr == tick.probes[i]
                   S == CollisionAhead(world, pr.start, pr.mode)
               IN  (/\ InRaster(world, ScanCell(world, pr.start, pr.mode,
                                                StartCoord(pr.start, pr.mode)))
                    /\ pr.start.x >= 0 /\ pr.start.y >= 0
                    /\ S # {})
                       => /\ pr.stop = "collision"
                          /\ pr.lim = Nearest(S, pr.mode)
                          /\ pr.lim_meters = LimMeters(world, Nearest(S, pr.mode))
                          /\ \A c \in S : IF pr.mode \in {1, 3} THEN c <= pr.lim
                                                                ELSE c >= pr.lim

(* an update in which probes of all four modes stopped on a Collision cell *)
(* two or more steps from their start                                      *)
C14Witness ==
    /\ Ticked
    /\ \A m \in 1 .. 4 :
           \E i \in 1 .. Len(tick.probes) :
               /\ tick.probes[i].mode = m
               /\ tick.probes[i].stop = "collision"
               /\ Abs(tick.probes[i].lim
                      - StartCoord(tick.probes[i].start, m)) >= 2
               /\ tick.probes[i].lim_meters
                      = LimMeters(world, Nearest(CollisionAhead(world,
                                      tick.probes[i].start, m), m))

(* C15: a probe that finds no Collision tile ends on a sample outside the  *)
(* raster and returns, in world units, the scan coordinate of that sample, *)
(* the first one outside the raster, in each of the four directions.       *)
C15EndsOutside ==
    Ticked
        => \A i \in 1 .. Len(tick.probes) :
               LET pr == tick.probes[i]
               IN  pr.stop # "collision"
                       => /\ pr.stop = "outside"
                          /\ ~InRaster(world, ScanCell(world, pr.start, pr.mode, pr.lim))
                          /\ pr.lim_meters = LimMeters(world, pr.lim)

(* start cells inside and around the raster, negative coordinates included *)
StartCells(w) ==
    {Vec(sx, sy) : sx \in (-StartMargin) .. (w.map.width + StartMargin),
                   sy \in (-StartMargin) .. (w.map.height + StartMargin)}

(* C16: from every start cell, inside or outside the raster, and in each   *)
(* of the four modes, the scan loop of the probe ends by returning a limit *)
(* (the world and the build are those of the run's first state).           *)
C16ProbeReturns ==
    ticks = 0
        => \A start \in StartCells(world), mode \in 1 .. 4 :
               GetLimit(world, overflow_checks, start, mode, NoInfo).stop
                   \in {"collision", "outside", "zero"}

(* the row coordinate of the sample a probe ended on *)
RowCoord(pr) == IF pr.mode \in {1, 2} THEN pr.lim ELSE pr.start.y

(* C17 as the spec states it: a probe that samples row r reads raster row  *)
(* raster_height - r - 1, the row the renderer draws at lattice row r.     *)
C17RendererRow ==
    Ticked
        => \A i \in 1 .. Len(tick.probes) :
               StoppedOnCell(tick.probes[i])
                   => tick.probes[i].cell[2] = RasterRow(world, RowCoord(tick.probes[i]))

(* C17, amended: a probe that samples at row coordinate r reads raster row *)
(* raster_height - r, the row the renderer draws at lattice row r - 1, and *)
(* a probe that stopped for a Collision stopped on a Collision pixel of    *)
(* that row; row coordinate 0 is outside the raster, coordinate 1 is the   *)
(* bottom raster row, and every raster row is read at one of 1 .. height:  *)
(* a feet probe started on a Collision cell's coordinate stops on it.      *)
C17ProbeRow ==
    /\ Ticked
           => \A i \in 1 .. Len(tick.probes) :
                  LET pr == tick.probes[i]
                  IN  StoppedOnCell(pr)
                          => /\ RowCoord(pr) >= 1
                             /\ pr.cell[2] = world.map.height - RowCoord(pr)
                             /\ pr.cell[2] = RasterRow(world, RowCoord(pr) - 1)
                             /\ pr.stop = "collision" => CollisionPixel(world, pr.cell)
    /\ ticks = 0 /\ inputs = 0
           => /\ \A x \in 0 .. (world.map.width - 1) :
                     GetLimit(world, FALSE, Vec(x, 0), 1, NoInfo).stop = "outside"
              /\ \A c \in Cells :
                     CollisionPixel(world, c)
                         => LET pr == GetLimit(world, FALSE,
                                               Vec(c[1], world.map.height - c[2]),
                                               1, NoInfo)
                            IN  pr.stop = "collision" /\ pr.cell = c /\ pr.lim >= 1

(* a feet probe stopped at row coordinate 1 on the bottom raster row       *)
C17Witness ==
    /\ Ticked
    /\ \E i \in 1 .. Len(tick.probes) :
           /\ tick.probes[i].mode = 1
           /\ tick.probes[i].stop = "collision"
           /\ tick.probes[i].lim = 1
           /\ tick.probes[i].cell[2] = world.map.height - 1
           /\ tick.probes[i].cell[2] = RasterRow(world, 0)

(* the probes of the tick that are feet (-y) probes stopped by a Collision *)
FeetStops == {i \in 1 .. Len(tick.probes) :
                  tick.probes[i].mode = 1 /\ tick.probes[i].stop = "collision"}

(* the material of the pixel of a raster cell that carries a Collision *)
MaterialAt(w, cell) ==
    LastCollision(EffectMapGet(w.effect_map, w.map.pixels[cell]).eff.effects)

(* C18: in every update material is recorded if and only if one of the     *)
(* three -y probes stopped on a Collision tile; it is the material of the  *)
(* last of them that did; the +y, -x and +x probes leave it as it is; and  *)
(* it starts from none in each update, so a tick without such a probe      *)
(* ends with none.                                                         *)
C18FeetOnlyMaterial ==
    Ticked
        => /\ tick.collision_information.some <=> FeetStops # {}
           /\ FeetStops # {}
                  => tick.collision_information
                         = MaterialAt(world,
                               tick.probes[CHOOSE i \in FeetStops :
                                               \A j \in FeetStops : j <= i].cell)
           /\ \A i \in 1 .. Len(tick.probes) :
                  tick.probes[i].mode # 1
                      => tick.probes[i].info = tick.probes[i - 1].info
           /\ tick.collision_information = tick.probes[Len(tick.probes)].info

(* the first update without material after updates with material: no feet *)
(* probe stopped, other probes stopped on Collision tiles                  *)
C18Witness ==
    /\ Ticked
    /\ ticks > 1
    /\ airborne.n = 1
    /\ ~tick.collision_information.some
    /\ FeetStops = {}
    /\ \E i \in 1 .. Len(tick.probes) :
           tick.probes[i].mode # 1 /\ tick.probes[i].stop = "collision"

(* `-v * bounce_coeff` where the side was violated, v where it was not *)
Reflected(v, violated, bounce) == IF violated THEN MulCoef(-v, bounce) ELSE v

(* the bounce factor of the tile the last stopped feet probe stopped on *)
FeetBounce ==
    MaterialAt(world, tick.probes[CHOOSE i \in FeetStops :
                                      \A j \in FeetStops : j <= i].cell).bounce

(* the four side tests of the tick in program order, each on the location *)
(* the sides before it left                                               *)
SideTests ==
    LET size == tick.old.size
        xMin == tick.new_loc.x < tick.lim.x_min
        x1 == IF xMin THEN tick.lim.x_min ELSE tick.new_loc.x
        xMax == x1 + size.x > tick.lim.x_max
        yMin == tick.new_loc.y < tick.lim.y_min
        y1 == IF yMin THEN tick.lim.y_min ELSE tick.new_loc.y
        yMax == y1 + size.y > tick.lim.y_max
    IN  [x_min |-> xMin, x_max |-> xMax, y_min |-> yMin, y_max |-> yMax]

(* C19: in an update with feet material, each violated side, taken in the  *)
(* order x min, x max, y min, y max, replaces the velocity on its axis by  *)
(* minus its current value times the bounce factor of the feet material,   *)
(* the horizontal sides included; an axis with no violated side keeps its  *)
(* velocity (after friction for x, after integration for y).               *)
C19ReflectByFeetBounce ==
    Ticked /\ FeetStops # {}
        => LET t == SideTests
               b == FeetBounce
           IN  /\ phys.vel.x = Reflected(Reflected(tick.vx_after_friction, t.x_min, b),
                                         t.x_max, b)
               /\ phys.vel.y = Reflected(Reflected(tick.vel_integrated.y, t.y_min, b),
                                         t.y_max, b)
               /\ ~t.x_min /\ ~t.x_max => phys.vel.x = tick.vx_after_friction
               /\ ~t.y_min /\ ~t.y_max => phys.vel.y = tick.vel_integrated.y

(* a moving body standing on one material is reflected by a wall of another *)
C19Witness ==
    /\ Ticked
    /\ FeetStops # {}
    /\ SideTests.x_min \/ SideTests.x_max
    /\ tick.vx_after_friction # 0
    /\ phys.vel.x # 0
    /\ \E i \in 1 .. Len(tick.probes) :
           /\ tick.probes[i].mode \in {3, 4}
           /\ tick.probes[i].stop = "collision"
           /\ MaterialAt(world, tick.probes[i].cell).bounce # FeetBounce

(* C20: after every update in which feet material was recorded the        *)
(* committed location lies within that tick's aggregate limits on both     *)
(* axes.                                                                   *)
C20WithinLimits ==
    Ticked /\ tick.collision_information.some
        => /\ tick.lim.x_min <= phys.loc.x
           /\ phys.loc.x + phys.size.x <= tick.lim.x_max
           /\ tick.lim.y_min <= phys.loc.y
           /\ phys.loc.y + phys.size.y <= tick.lim.y_max

(* |friction.x * gravity.y * dt| for the material and dt of the tick *)
FrictionImpulse ==
    Abs(MulDt(MulCoef(GRAVITY.y, tick.collision_information.friction.x), tick.dt))

(* velocity.x less the impulse carrying the sign of velocity.x *)
LessImpulse(v, impulse) == IF v < 0 THEN v + impulse ELSE v - impulse

(* r is on the other side of zero from v *)
PassesZero(v, r) == (v >= 0 /\ r < 0) \/ (v < 0 /\ r > 0)

(* C21: in an update with feet material the friction step sets velocity.x  *)
(* to velocity.x less an impulse of magnitude |friction.x * gravity.y * dt| *)
(* carrying the sign of velocity.x when that result neither passes zero    *)
(* nor changes sign, and to 0 otherwise; a material with friction.x = 0    *)
(* leaves velocity.x unchanged.                                            *)
C21FrictionStepRule ==
    Ticked /\ tick.collision_information.some
        => LET v == tick.vel_integrated.x
               r == LessImpulse(v, FrictionImpulse)
           IN  /\ tick.vx_after_friction = IF PassesZero(v, r) THEN 0 ELSE r
               /\ tick.collision_information.friction.x = 0
                      => tick.vx_after_friction = v

(* the 14 limits a body has stored *)
StoredLimits(p) == [i \in 1 .. Len(LimitNames) |-> p[LimitNames[i]]]

(* Bodies in the lattice cell of p that differ from p in velocity, forces, *)
(* mass and size, each with a dt of its own: one on the corner of the      *)
(* cell, one on p's location.                                              *)
SameCellUpdates(w, p) ==
    { [body |-> [p EXCEPT !.loc = CellToWorld(w, PixelSpaceSelfCoords(w, p.loc)),
                          !.vel = Vec(FP, -FP),
                          !.force = Vec(FP \div 2, 0),
                          !.movement_forces = Vec(-MoveForce, MoveForce),
                          !.mass = MassDen,
                          !.size = SmallSize],
       dt |-> 10],
      [body |-> [p EXCEPT !.vel = Vec(-2 * FP, 3 * FP),
                          !.force = Vec(0, -FP),
                          !.mass = 2 * MassDen,
                          !.size = Vec(FP, FP)],
       dt |-> 5] }

(* C22: the limits an update stores and the material it records are        *)
(* determined by the lattice cell of the pre-update location and the world: *)
(* an update from the same cell with another velocity, other forces, mass,  *)
(* size and dt stores the same 14 limits and records the same material.    *)
C22LimitsFromCellOnly ==
    Ticked
        => \A u \in SameCellUpdates(world, tick.old) :
               \A r \in {UpdateStep(u.body, u.dt, world, overflow_checks)} :
                   /\ r.outcome = "ok"
                   /\ StoredLimits(r.phys) = StoredLimits(phys)
                   /\ r.log.collision_information = tick.collision_information
                   /\ r.log.lim = tick.lim

(* an update with material and a probe stopped by a tile, from a location  *)
(* off the corner of its cell, which the other bodies of the cell leave    *)
(* for other locations and velocities                                      *)
C22Witness ==
    /\ Ticked
    /\ tick.collision_information.some
    /\ tick.old.loc # CellToWorld(world, PixelSpaceSelfCoords(world, tick.old.loc))
    /\ PixelSpaceSelfCoords(world, tick.new_loc)
           # PixelSpaceSelfCoords(world, tick.old.loc)
    /\ \A u \in SameCellUpdates(world, tick.old) :
           \A r \in {UpdateStep(u.body, u.dt, world, overflow_checks)} :
               r.phys.loc # phys.loc /\ r.phys.vel # phys.vel

(* C23: an update that records no feet material leaves                     *)
(* acceleration = (external force + movement force) / mass,                *)
(* velocity = old velocity + gravity * dt + acceleration * dt and          *)
(* location = old location + new velocity * dt: gravity acts whether or    *)
(* not the body touches anything and the location step uses the velocity   *)
(* of this tick.                                                           *)
C23EulerStep ==
    Ticked /\ ~tick.collision_information.some
        => LET old == tick.old
               ax == DivMass(old.force.x + old.movement_forces.x, old.mass)
               ay == DivMass(old.force.y + old.movement_forces.y, old.mass)
               vx == old.vel.x + MulDt(GRAVITY.x, tick.dt) + MulDt(ax, tick.dt)
               vy == old.vel.y + MulDt(GRAVITY.y, tick.dt) + MulDt(ay, tick.dt)
           IN  /\ phys.accel = Vec(ax, ay)
               /\ phys.vel = Vec(vx, vy)
               /\ phys.loc = Vec(old.loc.x + MulDt(vx, tick.dt),
                                 old.loc.y + MulDt(vy, tick.dt))

(* an update without material, under a held key and with a limit violated, *)
(* of a body that was already moving                                       *)
C23Witness ==
    /\ Ticked
    /\ ~tick.collision_information.some
    /\ tick.error_logged
    /\ tick.old.movement_forces.x # 0
    /\ tick.old.vel.x # 0 /\ tick.old.vel.y # 0
    /\ phys.vel # tick.old.vel
    /\ phys.loc.x # tick.old.loc.x /\ phys.loc.y # tick.old.loc.y

NegativeExcursion == Ticked /\ (tick.new_loc.x < 0 \/ tick.new_loc.y < 0)

LastCollisionOf(w, cell) ==
    LET effects == EffectMapGet(w.effect_map, w.map.pixels[cell]).eff.effects
        idx == {i \in 1 .. Len(effects) : effects[i].kind = "Collision"}
        last == CHOOSE i \in idx : \A j \in idx : j <= i
    IN  [bounce |-> effects[last].bounce, friction |-> effects[last].friction]

(* the feet probe (1 = left, 2 = centre, 3 = right) that gives y_min *)
GivesYMin(i) == tick.probes[i].lim_meters = tick.lim.y_min

(* C26: when several feet probes stop on Collision tiles, the material of  *)
(* the update is that of the tile of the last of them in the order left,   *)
(* centre, right, taken from the last Collision effect of the tile's       *)
(* effect list, whichever probe gives the aggregate y_min; friction and     *)
(* bounce of the update use it.                                            *)
C26LastFeetProbeWins ==
    Ticked /\ FeetStops # {}
        => LET last == CHOOSE i \in FeetStops : \A j \in FeetStops : j <= i
               m == LastCollisionOf(world, tick.probes[last].cell)
               t == SideTests
           IN  /\ tick.collision_information.bounce = m.bounce
               /\ tick.collision_information.friction = m.friction
               /\ tick.vx_after_friction
                      = FrictionStep(tick.vel_integrated.x, m.friction, tick.dt)
               /\ t.y_min /\ ~t.y_max
                      => phys.vel.y = MulCoef(-tick.vel_integrated.y, m.bounce)

(* the left feet probe stands on a higher tile of another material and     *)
(* gives y_min, the right one stops on a tile with two Collision effects   *)
(* and gives the material; the body lands with its bounce                  *)
C26Witness ==
    /\ Ticked
    /\ FeetStops = {1, 2, 3}
    /\ GivesYMin(1) /\ ~GivesYMin(3)
    /\ MaterialAt(world, tick.probes[1].cell) # MaterialAt(world, tick.probes[3].cell)
    /\ world.map.pixels[tick.probes[3].cell] = Layered
    /\ tick.collision_information.bounce = 30
    /\ tick.collision_information.friction = Vec(10, 0)
    /\ SideTests.y_min
    /\ tick.vel_integrated.x # 0
    /\ tick.vx_after_friction # tick.vel_integrated.x

(* the start of the i-th feet probe of the tick: the cell of the old       *)
(* location, moved i - 1 columns to the right                              *)
FeetStart(i) == VAdd(PixelSpaceSelfCoords(world, tick.old.loc), Vec(i - 1, 0))

(* the column of the i-th feet probe holds a Collision tile at or below    *)
(* the probe's start row                                                   *)
FloorBelow(i) == CollisionAhead(world, FeetStart(i), 1) # {}

(* the friction step of the tick ran, with the recorded material *)
FrictionApplied ==
    /\ tick.collision_information.some
    /\ tick.vx_after_friction
           = FrictionStep(tick.vel_integrated.x,
                          tick.collision_information.friction, tick.dt)

(* C27 as stated: friction is applied in every update in which a column of *)
(* a feet probe holds a Collision tile at or below the probe's start row.  *)
C27FrictionOverAnyFloor ==
    Ticked /\ (\E i \in 1 .. 3 : FloorBelow(i)) => FrictionApplied

(* C27 for the feet probes that start on a row of the raster: friction is  *)
(* applied in an update exactly when such a probe (row coordinate at most  *)
(* the raster height) has a Collision tile in its column at or below that  *)
(* row, whatever the distance between the body and the tile; without       *)
(* recorded material velocity.x is left as integrated.                     *)
C27FrictionOverFloorInRaster ==
    Ticked
        => /\ FrictionApplied
                  <=> \E i \in 1 .. 3 : /\ FeetStart(i).y <= world.map.height
                                        /\ FloorBelow(i)
           /\ ~tick.collision_information.some
                  => tick.vx_after_friction = tick.vel_integrated.x

(* a body two or more rows above the floor, not reaching y_min in the      *)
(* tick, whose velocity.x the friction step has reduced                    *)
C27Witness ==
    /\ Ticked
    /\ FrictionApplied
    /\ \A i \in 1 .. 3 :
           tick.probes[i].stop = "collision"
               => tick.probes[i].start.y - tick.probes[i].lim >= 2
    /\ ~SideTests.y_min
    /\ tick.new_loc.y > tick.lim.y_min
    /\ tick.old.loc.y > tick.lim.y_min
    /\ tick.vel_integrated.x # 0
    /\ Abs(tick.vx_after_friction) < Abs(tick.vel_integrated.x)

(* the horizontal acceleration of the tick: (external force.x + movement   *)
(* force.x) / mass, for the body the update started from                   *)
AccelX == DivMass(tick.old.force.x + tick.old.movement_forces.x, tick.old.mass)

(* the friction deceleration of the recorded material: |friction.x * g| *)
FrictionDecel == Abs(MulCoef(GRAVITY.y, tick.collision_information.friction.x))

(* the update started with velocity.x = 0, recorded feet material with     *)
(* friction.x > 0, violated no horizontal limit, and the horizontal        *)
(* acceleration was at most the friction deceleration                      *)
HeldByFriction ==
    /\ Ticked
    /\ tick.collision_information.some
    /\ tick.collision_information.friction.x > 0
    /\ tick.old.vel.x = 0
    /\ ~SideTests.x_min
    /\ ~SideTests.x_max
    /\ Abs(AccelX) <= FrictionDecel

(* C28: an update that starts with velocity.x = 0, records feet material   *)
(* with friction.x = c > 0, violates no horizontal limit and has           *)
(* |(external_force.x + movement_force.x) / mass| <= c * 9.80665 ends with  *)
(* velocity.x = 0; a sequence of such updates therefore keeps velocity.x   *)
(* at 0 after every update.                                                *)
C28HeldAtRest == HeldByFriction => phys.vel.x = 0

(* a second or later update of a body pushed sideways from rest that the   *)
(* friction step brought back to velocity.x = 0                            *)
C28Witness ==
    /\ HeldByFriction
    /\ ticks >= 2
    /\ AccelX # 0
    /\ tick.vel_integrated.x # 0
    /\ phys.vel.x = 0

=============================================================================
